---- MODULE Spec2Model ----
(***************************************************************************)
(* Model of provider/godaddy/client.go: the rate-limited, retrying HTTP    *)
(* client.  One client is built by NewClient (which runs one validation    *)
(* call), then NumCalls callers run CallAPIWithContext concurrently on it, *)
(* while the limiter's clock ticks and callers cancel their contexts.      *)
(* A call walks through NewRequest, Do (LogRequest, Ratelimiter.Wait,      *)
(* Client.Do, the 429 retry loop, LogResponse) and UnmarshalResponse.      *)
(***************************************************************************)
EXTENDS Integers, Sequences, FiniteSets, TLC

(* ------------------------------ bounds --------------------------------- *)

\* number of callers of the constructed client (the validation call of
\* NewClient comes on top)
NumCalls == 1

\* number of refill intervals (seconds) the clock may advance
MaxTicks == 2

\* burst of the token bucket; client.go:131 uses 60, the model scales it
\* down so that the callers can drain the bucket
Burst == 1

(* ------------------------- program constants --------------------------- *)

ErrCodeQuotaExceeded == "QUOTA_EXCEEDED"

\* DefaultTimeout = 180 * time.Second
DefaultTimeout == 180

\* for i := 1; i < 3 && ...
MaxAttempts == 3

StatusTooManyRequests == 429
StatusOK == 200
StatusMultipleChoices == 300

(* ------------------------------ inputs --------------------------------- *)

ValidateCall == 0
UserCalls == 1..NumCalls
Calls == {ValidateCall} \cup UserCalls

\* status codes a response may carry
Statuses == {199, 200, 300, 429}

\* values of the Retry-After header, as character sequences; <<>> is what
\* Header.Get returns for an absent header
RetryAfterValues == { <<>>, <<"s">>, <<"0">>, <<"1">>, <<"2">> }

\* what io.ReadAll(response.Body) yields:
\*   readfail   the read fails
\*   empty      zero bytes
\*   malformed  bytes that are not JSON
\*   quota      {"code":"QUOTA_EXCEEDED","message":"limit hit"}
\*   other      {"code":"OTHER_CODE","message":"..."}
\*   nocode     a JSON object without a "code" member
Bodies == {"readfail", "empty", "malformed", "quota", "other", "nocode"}

\* contexts a caller may pass: context.Background(), or one that can be
\* canceled and may carry a deadline; "done" is a context that was canceled
\* or whose deadline has passed
CallerContexts == {"background", "cancelable"}

\* resType: nil, or a pointer to a target holding its original value; a
\* target the decoder has written is "decoded", and "none" stands for the
\* target of a call that has not reached the decoder
Targets == {"nil", "orig"}

VARIABLES
    client,         \* NewClient: "validating", then "ok" (a *Client) or "failed" (nil, err)
    Logger,         \* Client.Logger # nil
    ClientTimeout,  \* Client.Client.Timeout
    timeoutWriters, \* the calls whose NewRequest has assigned Client.Client.Timeout
    tokens,         \* Client.Ratelimiter: tokens in the bucket
    ticks,          \* refill intervals elapsed since construction
    admitted,       \* c.Client.Do calls entered with a context that was not done
    call            \* per call: position and locals of CallAPIWithContext and Do
                    \*   pc: "idle", "wait" (in Ratelimiter.Wait), "send" (in
                    \*   c.Client.Do), "sleep" (in time.Sleep), "decode" (Do has
                    \*   returned a response), "done" (returned), "panic"
                    \*   sends, recv: c.Client.Do calls made, responses received
                    \*   acquired: tokens taken; waitErr: what the last Wait returned
                    \*   sleepTime: the backoff being slept, in seconds; wake: the
                    \*   value of ticks at which that sleep is over
                    \*   closed: response bodies on which Close has been called

vars == <<client, Logger, ClientTimeout, timeoutWriters, tokens, ticks, admitted, call>>

NoResp == [status |-> 0, retryAfter |-> <<>>, id |-> 0]
NoResult == [kind |-> "none", code |-> "", status |-> 0]

IdleCall ==
    [pc |-> "idle", ctx |-> "background", target |-> "none", i |-> 0,
     resp |-> NoResp, sends |-> 0, recv |-> 0, acquired |-> 0,
     waitErr |-> "none", sleeps |-> 0, sleepTime |-> 0, wake |-> 0,
     logReq |-> 0, logResp |-> 0, returned |-> 0, body |-> "none",
     unmarshal |-> FALSE, closed |-> 0, result |-> NoResult]

\* the frame of a call that has returned: only what the caller sees remains
Returned(result, body, target, unmarshal) ==
    [IdleCall EXCEPT !.pc = "done", !.result = result, !.body = body,
                     !.target = target, !.unmarshal = unmarshal]

\* an unrecovered panic ends the process
Crashed == \E c \in Calls : call[c].pc = "panic"

(* --------------------------- pure functions ---------------------------- *)

Digits == {"0", "1", "2", "3", "4", "5", "6", "7", "8", "9"}

DigitVal(ch) ==
    CASE ch = "0" -> 0 [] ch = "1" -> 1 [] ch = "2" -> 2 [] ch = "3" -> 3
      [] ch = "4" -> 4 [] ch = "5" -> 5 [] ch = "6" -> 6 [] ch = "7" -> 7
      [] ch = "8" -> 8 [] ch = "9" -> 9

RECURSIVE ParseDigits(_, _)
\* the value of a digit string, or -1 when a character is not a digit
ParseDigits(s, acc) ==
    IF s = <<>> THEN acc
    ELSE IF Head(s) \notin Digits THEN -1
    ELSE ParseDigits(Tail(s), acc * 10 + DigitVal(Head(s)))

\* strconv.ParseInt(s, 10, 0): optional sign, then at least one digit
ParseInt_EmptyIsZero(s) ==
    LET neg == s # <<>> /\ Head(s) = "-"
        signed == s # <<>> /\ Head(s) \in {"+", "-"}
        rest == IF signed THEN Tail(s) ELSE s
        mag == ParseDigits(rest, 0)
    IN  IF mag < 0 THEN [err |-> TRUE, val |-> 0]
        ELSE [err |-> FALSE, val |-> IF neg THEN 0 - mag ELSE mag]

ParseInt(s) ==
    LET neg == s # <<>> /\ Head(s) = "-"
        signed == s # <<>> /\ Head(s) \in {"+", "-"}
        rest == IF signed THEN Tail(s) ELSE s
        mag == IF rest = <<>> THEN -1 ELSE ParseDigits(rest, 0)
    IN  IF mag < 0 THEN [err |-> TRUE, val |-> 0]
        ELSE [err |-> FALSE, val |-> IF neg THEN 0 - mag ELSE mag]

\* the draws rand.Int63n(n) can return; it panics for n <= 0
Int63n(n) == 0 .. (n - 1)

\* retryAfterSec := retryAfter + jitter/2
RetryAfterSec_WholeJitter(retryAfter, jitter) == retryAfter + jitter

RetryAfterSec(retryAfter, jitter) == retryAfter + (jitter \div 2)

\* i < 3 && resp != nil && resp.StatusCode == 429
RetryLoopCond_OffByOne(i, resp) ==
    i <= MaxAttempts /\ resp # NoResp /\ resp.status = StatusTooManyRequests

RetryLoopCond_AnyStatus(i, resp) == i < MaxAttempts /\ resp # NoResp

RetryLoopCond(i, resp) ==
    i < MaxAttempts /\ resp # NoResp /\ resp.status = StatusTooManyRequests

\* response.StatusCode < http.StatusOK || response.StatusCode >= http.StatusMultipleChoices
IsAPIErrorStatus_Inclusive(status) ==
    status <= StatusOK \/ status >= StatusMultipleChoices

IsAPIErrorStatus(status) == status < StatusOK \/ status >= StatusMultipleChoices

\* len(body) == 0 || resType == nil
NothingToUnmarshal_Both(body, target) == body = "empty" /\ target = "nil"

NothingToUnmarshal(body, target) == body = "empty" \/ target = "nil"

\* the bodies json.Unmarshal accepts as a JSON object
JsonValid(body) == body \in {"quota", "other", "nocode"}

\* json.Unmarshal(body, apiError) on &APIError{Code: "HTTPStatus: <status>"},
\* lines 338-346: the parse failure, or the APIError with the body's code
UnmarshalAPIError(status, body) ==
    IF ~JsonValid(body)
    THEN [kind |-> "parse", code |-> "", status |-> status]
    ELSE [kind |-> "api", status |-> status,
          code |-> CASE body = "quota" -> ErrCodeQuotaExceeded
                     [] body = "other" -> "OTHER_CODE"
                     [] OTHER -> "HTTPStatus"]

\* Client.UnmarshalResponse: the error returned, the caller's target after
\* it, whether json.Unmarshal(body, &resType) of line 354 ran, and whether
\* response.Body.Close() ran: it is deferred at line 330, ahead of every
\* return
UnmarshalResponse_CloseAfterRead(status, body, target) ==
    IF body = "readfail"
    THEN [result |-> [kind |-> "read", code |-> "", status |-> status],
          target |-> target, unmarshal |-> FALSE, closed |-> FALSE]
    ELSE IF IsAPIErrorStatus(status)
    THEN [result |-> UnmarshalAPIError(status, body),
          target |-> target, unmarshal |-> FALSE, closed |-> TRUE]
    ELSE IF NothingToUnmarshal(body, target)
    THEN [result |-> [kind |-> "ok", code |-> "", status |-> status],
          target |-> target, unmarshal |-> FALSE, closed |-> TRUE]
    ELSE IF ~JsonValid(body)
    THEN [result |-> [kind |-> "decode", code |-> "", status |-> status],
          target |-> target, unmarshal |-> TRUE, closed |-> TRUE]
    ELSE [result |-> [kind |-> "ok", code |-> "", status |-> status],
          target |-> IF target = "nil" THEN "nil" ELSE "decoded",
          unmarshal |-> TRUE, closed |-> TRUE]

UnmarshalResponse(status, body, target) ==
    IF body = "readfail"
    THEN [result |-> [kind |-> "read", code |-> "", status |-> status],
          target |-> target, unmarshal |-> FALSE, closed |-> TRUE]
    ELSE IF IsAPIErrorStatus(status)
    THEN [result |-> UnmarshalAPIError(status, body),
          target |-> target, unmarshal |-> FALSE, closed |-> TRUE]
    ELSE IF NothingToUnmarshal(body, target)
    THEN [result |-> [kind |-> "ok", code |-> "", status |-> status],
          target |-> target, unmarshal |-> FALSE, closed |-> TRUE]
    ELSE IF ~JsonValid(body)
    THEN [result |-> [kind |-> "decode", code |-> "", status |-> status],
          target |-> target, unmarshal |-> TRUE, closed |-> TRUE]
    ELSE [result |-> [kind |-> "ok", code |-> "", status |-> status],
          target |-> IF target = "nil" THEN "nil" ELSE "decoded",
          unmarshal |-> TRUE, closed |-> TRUE]

\* NewClient, lines 136-145: what it returns for validate()'s error
NewClientResult(err) ==
    IF err.kind # "ok" /\ err.kind = "api" /\ err.code # ErrCodeQuotaExceeded
    THEN "failed"
    ELSE "ok"

(* ------------------------------- Init ---------------------------------- *)

\* the state of NewClient after the Client literal is built (line 133)
Init ==
    /\ client = "validating"
    /\ Logger = FALSE
    /\ ClientTimeout = 0
    /\ timeoutWriters = {}
    /\ tokens = Burst
    /\ ticks = 0
    /\ admitted = 0
    /\ call = [c \in Calls |-> IdleCall]

(* ------------------------------ actions -------------------------------- *)

\* the frame of a call at c.Ratelimiter.Wait (line 240): the request is
\* built, carries ctx, and LogRequest has run if a Logger is set; logger is
\* what c.Logger != nil reads
DoEnter(cr, ctx, logger) ==
    [cr EXCEPT !.pc = "wait", !.ctx = ctx, !.i = 1,
               !.logReq = IF logger THEN 1 ELSE 0]

\* Client.NewRequest followed by the head of Client.Do (LogRequest).
\* reqOK: json.Marshal(reqBody) and http.NewRequest both succeed.
StartCall(c, ctx, reqOK) ==
    IF ~reqOK
    THEN /\ call' = [call EXCEPT ![c] =
                Returned([kind |-> "build", code |-> "", status |-> 0],
                         "none", "none", FALSE)]
         /\ UNCHANGED <<ClientTimeout, timeoutWriters>>
    ELSE /\ ClientTimeout' = DefaultTimeout
         /\ timeoutWriters' = timeoutWriters \cup {c}
         /\ call' = [call EXCEPT ![c] = DoEnter(@, ctx, Logger)]

\* Client.validate: c.Get(domainsURI, response), context.Background()
validate ==
    /\ client = "validating"
    /\ call[ValidateCall].pc = "idle"
    /\ StartCall(ValidateCall, "background", TRUE)
    /\ UNCHANGED <<client, Logger, tokens, ticks, admitted>>

\* Client.CallAPIWithContext, lines 314-318, entered by a caller
CallAPIWithContext(c) ==
    /\ client = "ok"
    /\ ~Crashed
    /\ call[c].pc = "idle"
    /\ \E ctx \in CallerContexts, reqOK \in BOOLEAN : StartCall(c, ctx, reqOK)
    /\ UNCHANGED <<client, Logger, tokens, ticks, admitted>>

\* Do, lines 240-241 and 259-260, once Wait has returned: its error is
\* discarded and c.Client.Do(req) is called. err: "none", "canceled" or
\* "deadline"; a token was consumed exactly when err is "none"
AfterWait(cr, err) ==
    [cr EXCEPT !.pc = "send", !.waitErr = err, !.sends = @ + 1,
               !.acquired = IF err = "none" THEN @ + 1 ELSE @]

\* c.Ratelimiter.Wait(req.Context()) returns nil: one token consumed
WaitAcquire(c) ==
    /\ ~Crashed
    /\ call[c].pc = "wait"
    /\ call[c].ctx # "done"
    /\ tokens > 0
    /\ tokens' = tokens - 1
    /\ admitted' = admitted + 1
    /\ call' = [call EXCEPT ![c] = AfterWait(@, "none")]
    /\ UNCHANGED <<client, Logger, ClientTimeout, timeoutWriters, ticks>>

\* c.Ratelimiter.Wait(req.Context()) returns an error and consumes nothing:
\* the context is done, or its deadline is sooner than the next token
WaitFail(c) ==
    /\ ~Crashed
    /\ call[c].pc = "wait"
    /\ \/ /\ call[c].ctx = "done"
          /\ call' = [call EXCEPT ![c] = AfterWait(@, "canceled")]
          /\ UNCHANGED admitted
       \/ /\ call[c].ctx = "cancelable"
          /\ tokens = 0
          /\ call' = [call EXCEPT ![c] = AfterWait(@, "deadline")]
          /\ admitted' = admitted + 1
    /\ UNCHANGED <<client, Logger, ClientTimeout, timeoutWriters, tokens, ticks>>

\* Do after c.Client.Do(req) returned an error (lines 242-244, 261-263):
\* return nil, err; CallAPIWithContext returns err (lines 320-322)
AfterSendError_Retry(cr) ==
    { [cr EXCEPT !.pc = "wait", !.resp = NoResp] }

AfterSendError(cr) ==
    { Returned([kind |-> "transport",
                code |-> IF cr.ctx = "done" THEN "context" ELSE "conn",
                status |-> 0], "none", "none", FALSE) }

\* Do, lines 265-268: LogResponse and return resp to CallAPIWithContext;
\* logger is what c.Logger != nil reads
DoReturn_ReturnInsideLog(cr, logger) ==
    IF logger
    THEN [cr EXCEPT !.pc = "decode", !.returned = cr.resp.id,
                    !.logResp = @ + 1]
    ELSE [cr EXCEPT !.pc = "panic"]

DoReturn(cr, logger) ==
    [cr EXCEPT !.pc = "decode", !.returned = cr.resp.id,
               !.logResp = IF logger THEN @ + 1 ELSE @]

\* the loop head and body up to time.Sleep (lines 246-257), or the exit
\* of the loop (lines 265-268): the records Do can be in next
RetryLoop(cr, logger) ==
    IF ~RetryLoopCond(cr.i, cr.resp)
    THEN {DoReturn(cr, logger)}
    ELSE LET parsed == ParseInt(cr.resp.retryAfter)
         IN  IF parsed.err THEN {DoReturn(cr, logger)}
             ELSE IF parsed.val <= 0 THEN {[cr EXCEPT !.pc = "panic"]}
             ELSE { [cr EXCEPT !.pc = "sleep",
                               !.sleepTime = RetryAfterSec(parsed.val, jitter),
                               !.wake = ticks + RetryAfterSec(parsed.val, jitter)] :
                        jitter \in Int63n(parsed.val) }

\* Do after c.Client.Do(req) returned response r; a retry's response ends
\* one iteration of the loop (i++) before the loop condition is read again
AfterSendResponse(cr, r, logger) ==
    RetryLoop([cr EXCEPT !.recv = @ + 1, !.waitErr = "none",
                         !.resp = [r EXCEPT !.id = cr.sends],
                         !.i = IF cr.sends = 1 THEN @ ELSE @ + 1], logger)

\* the responses the transport can return: any status without a
\* Retry-After header, a 429 with any header value, and a redirect-range
\* status that carries Retry-After: 1
Responses ==
    { [status |-> s, retryAfter |-> <<>>, id |-> 0] :
        s \in Statuses \ {StatusTooManyRequests} }
    \cup
    { [status |-> StatusTooManyRequests, retryAfter |-> h, id |-> 0] :
        h \in RetryAfterValues }
    \cup
    { [status |-> StatusMultipleChoices, retryAfter |-> <<"1">>, id |-> 0] }

\* c.Client.Do(req) returns: the initial send (line 241) or a retry (line
\* 260). With a context that is done the transport returns the context's
\* error; otherwise it returns an error or a response.
ClientDo(c) ==
    /\ ~Crashed
    /\ call[c].pc = "send"
    /\ \/ \E cr \in AfterSendError(call[c]) :
             call' = [call EXCEPT ![c] = cr]
       \/ /\ call[c].ctx # "done"
          /\ \E r \in Responses : \E cr \in AfterSendResponse(call[c], r, Logger) :
                call' = [call EXCEPT ![c] = cr]
    /\ UNCHANGED <<client, Logger, ClientTimeout, timeoutWriters, tokens, ticks, admitted>>

\* time.Sleep(sleepTime) returns, once sleepTime seconds have passed on the
\* clock the limiter refills by; it takes no context
SleepDone_Early(c) ==
    /\ ~Crashed
    /\ call[c].pc = "sleep"
    /\ call' = [call EXCEPT ![c] =
            [@ EXCEPT !.pc = "wait", !.sleeps = @ + 1, !.sleepTime = 0,
                      !.wake = 0]]
    /\ UNCHANGED <<client, Logger, ClientTimeout, timeoutWriters, tokens, ticks, admitted>>

SleepDone(c) ==
    /\ ~Crashed
    /\ call[c].pc = "sleep"
    /\ ticks >= call[c].wake
    /\ call' = [call EXCEPT ![c] =
            [@ EXCEPT !.pc = "wait", !.sleeps = @ + 1, !.sleepTime = 0,
                      !.wake = 0]]
    /\ UNCHANGED <<client, Logger, ClientTimeout, timeoutWriters, tokens, ticks, admitted>>

\* the resType values a call can carry: validate passes a nil interface
ResTypes(c) == IF c = ValidateCall THEN {"nil"} ELSE Targets

\* CallAPIWithContext line 323: c.UnmarshalResponse(response, resType).
\* resType travels untouched from the call's entry to this line, and the
\* body arrives when io.ReadAll reads it: both are drawn here.
Unmarshal(c) ==
    /\ ~Crashed
    /\ call[c].pc = "decode"
    /\ \E body \in Bodies, resType \in ResTypes(c) :
          LET out == UnmarshalResponse(call[c].resp.status, body, resType)
          IN  call' = [call EXCEPT ![c] =
                  [Returned(out.result, body, out.target, out.unmarshal)
                      EXCEPT !.closed = IF out.closed THEN 1 ELSE 0]]
    /\ UNCHANGED <<client, Logger, ClientTimeout, timeoutWriters, tokens, ticks, admitted>>

\* NewClient, lines 136-145, once validate() has returned
NewClient ==
    /\ client = "validating"
    /\ call[ValidateCall].pc = "done"
    /\ client' = NewClientResult(call[ValidateCall].result)
    /\ call' = [call EXCEPT ![ValidateCall] = IdleCall]
    /\ UNCHANGED <<Logger, ClientTimeout, timeoutWriters, tokens, ticks, admitted>>

\* the owner of the client installs a Logger before issuing calls
SetLogger ==
    /\ client = "ok"
    /\ ~Logger
    /\ \A c \in UserCalls : call[c].pc = "idle"
    /\ Logger' = TRUE
    /\ UNCHANGED <<client, ClientTimeout, timeoutWriters, tokens, ticks, admitted, call>>

\* the caller cancels the context of its call, or its deadline expires
Cancel(c) ==
    /\ ~Crashed
    /\ call[c].pc \notin {"idle", "done", "panic"}
    /\ call[c].ctx = "cancelable"
    /\ call' = [call EXCEPT ![c] = [@ EXCEPT !.ctx = "done"]]
    /\ UNCHANGED <<client, Logger, ClientTimeout, timeoutWriters, tokens, ticks, admitted>>

\* one refill interval (a second) elapses: the bucket gains a token, up to
\* the burst
Tick ==
    /\ ~Crashed
    /\ ticks < MaxTicks
    /\ ticks' = ticks + 1
    /\ tokens' = IF tokens < Burst THEN tokens + 1 ELSE tokens
    /\ UNCHANGED <<client, Logger, ClientTimeout, timeoutWriters, admitted, call>>

Next ==
    \/ validate
    \/ NewClient
    \/ SetLogger
    \/ Tick
    \/ \E c \in UserCalls : CallAPIWithContext(c)
    \/ \E c \in Calls : WaitAcquire(c)
    \/ \E c \in Calls : WaitFail(c)
    \/ \E c \in Calls : ClientDo(c)
    \/ \E c \in Calls : SleepDone(c)
    \/ \E c \in Calls : Unmarshal(c)
    \/ \E c \in UserCalls : Cancel(c)

Spec == Init /\ [][Next]_vars

(* ------------------------------ progress ------------------------------- *)

\* the clock after the counted refill intervals: seconds keep passing, the
\* bucket keeps refilling and the running sleeps come nearer their end;
\* ticks no longer counts them
Elapse ==
    /\ ~Crashed
    /\ ticks = MaxTicks
    /\ \/ tokens < Burst
       \/ \E c \in Calls : call[c].pc = "sleep" /\ call[c].wake > ticks
    /\ tokens' = IF tokens < Burst THEN tokens + 1 ELSE tokens
    /\ call' = [c \in Calls |->
                  IF call[c].pc = "sleep" /\ call[c].wake > ticks
                  THEN [call[c] EXCEPT !.wake = @ - 1]
                  ELSE call[c]]
    /\ UNCHANGED <<client, Logger, ClientTimeout, timeoutWriters, ticks, admitted>>

FairNext == Next \/ Elapse

\* time passes; a goroutine inside Wait, c.Client.Do, time.Sleep or
\* UnmarshalResponse is scheduled and the call it blocks in returns: the
\* limiter's timer fires, the transport answers within Client.Timeout, the
\* sleep's timer fires. Callers need not call and need not cancel.
Fairness ==
    /\ WF_vars(validate)
    /\ WF_vars(NewClient)
    /\ WF_vars(Tick)
    /\ WF_vars(Elapse)
    /\ \A c \in Calls :
          /\ WF_vars(WaitAcquire(c))
          /\ WF_vars(WaitFail(c))
          /\ WF_vars(ClientDo(c))
          /\ WF_vars(SleepDone(c))
          /\ WF_vars(Unmarshal(c))

FairSpec == Init /\ [][FairNext]_vars /\ Fairness

(* ------------------------------ claims --------------------------------- *)

\* a header value that reads as an integer: an optional sign, then digits
IsIntegerText(h) ==
    LET ds == IF h # <<>> /\ h[1] \in {"+", "-"} THEN Tail(h) ELSE h
    IN  ds # <<>> /\ \A k \in 1..Len(ds) : ds[k] \in Digits

\* a 429 response whose Retry-After is absent or is not an integer
Bad429(r) == r.status = 429 /\ ~IsIntegerText(r.retryAfter)

\* c received a response in this step
Receives(c) == call[c].pc = "send" /\ call'[c].recv = call[c].recv + 1

\* c.UnmarshalResponse ran for c in this step
Decodes(c) == call[c].pc = "decode" /\ call'[c].pc = "done"

Success2xx(status) == status \in 200..299

\* C1: one Do performs at most 3 calls of c.Client.Do; once it has made 3
\* it is inside the third or has handed a response to the decoder (it never
\* sleeps or waits for a fourth), and that response is the one the third
\* send received.
C1_AtMostThreeSends ==
    \A c \in Calls :
        /\ call[c].sends <= 3
        /\ call[c].sends = 3 => call[c].pc \in {"send", "decode"}
        /\ (call[c].pc = "decode" /\ call[c].sends = 3) =>
              /\ call[c].recv = 3
              /\ call[c].resp.id = 3
              /\ call[c].returned = 3

\* three paid sends, the third answered 429 with a valid Retry-After, and
\* that third response is with the decoder
C1_Witness ==
    \E c \in Calls :
        /\ call[c].pc = "decode"
        /\ call[c].sends = 3
        /\ call[c].acquired = 3
        /\ call[c].sleeps = 2
        /\ call[c].resp.status = 429
        /\ call[c].resp.retryAfter = <<"1">>
        /\ call[c].returned = 3

\* C2: after Ratelimiter.Wait failed because the context was canceled, the
\* call is never inside c.Client.Do.
C2_NoSendAfterCanceledWait ==
    \A c \in Calls : call[c].pc = "send" => call[c].waitErr # "canceled"

\* C3: NewClient returns a client exactly when validate() returned nil or
\* an APIError with code QUOTA_EXCEEDED; for every other error (another
\* API code, a transport error, a read or parse failure) it returns no
\* client.
C3_ConstructionFailsOnOtherErrors ==
    [][ (client = "validating" /\ client' # "validating") =>
            LET err == call[ValidateCall].result
            IN  (client' = "ok") <=>
                    \/ err.kind = "ok"
                    \/ err.kind = "api" /\ err.code = "QUOTA_EXCEEDED" ]_vars

\* C4: the sends admitted with a live context never exceed the burst plus
\* the refill intervals elapsed since construction.
C4_SendsWithinBucket == admitted <= Burst + ticks

\* C5 as stated: a 429 whose Retry-After is absent or not an integer goes
\* to the decoder with no sleep and no further send, and the decoder
\* returns it as an API Error.
C5_BadRetryAfterIsAPIError ==
    [][ \A c \in Calls :
          /\ (Receives(c) /\ Bad429(call'[c].resp)) =>
                /\ call'[c].pc = "decode"
                /\ call'[c].returned = call'[c].resp.id
                /\ call'[c].sends = call[c].sends
                /\ call'[c].sleeps = call[c].sleeps
          /\ (Decodes(c) /\ Bad429(call[c].resp)) =>
                call'[c].result.kind = "api" ]_vars

\* C5 as amended: a 429 whose Retry-After is absent or not an integer goes
\* to the decoder with no sleep and no further send; the decoder returns
\* an API Error when the body is read and parses as the error envelope,
\* and the read or parse failure otherwise.
C5_BadRetryAfterAbandonsLoop ==
    [][ \A c \in Calls :
          /\ (Receives(c) /\ Bad429(call'[c].resp)) =>
                /\ call'[c].pc = "decode"
                /\ call'[c].returned = call'[c].resp.id
                /\ call'[c].sends = call[c].sends
                /\ call'[c].sleeps = call[c].sleeps
          /\ (Decodes(c) /\ Bad429(call[c].resp)) =>
                /\ call'[c].result.status = 429
                /\ call'[c].body \in {"quota", "other", "nocode"} =>
                      call'[c].result.kind = "api"
                /\ call'[c].body \in {"empty", "malformed"} =>
                      call'[c].result.kind = "parse"
                /\ call'[c].body = "readfail" =>
                      call'[c].result.kind = "read" ]_vars

\* the first response is a 429 without a Retry-After header and is with
\* the decoder: one send, no sleep
C5_Witness ==
    \E c \in Calls :
        /\ call[c].pc = "decode"
        /\ call[c].resp.status = 429
        /\ call[c].resp.retryAfter = <<>>
        /\ call[c].sends = 1
        /\ call[c].sleeps = 0
        /\ call[c].returned = 1

\* C6: an error of c.Client.Do ends the call in that step with the error:
\* no response goes to the caller and the decoder does not run; a call
\* that has returned takes no further step; and a call is inside a second
\* or third c.Client.Do only while the response it holds is a 429.
C6_TransportFailureEndsCall ==
    [][ \A c \in Calls :
          /\ (call[c].pc = "send" /\ call'[c].pc # "send" /\ ~Receives(c)) =>
                /\ call'[c].pc = "done"
                /\ call'[c].result.kind = "transport"
                /\ call'[c].returned = 0
                /\ call'[c].body = "none"
          /\ call[c].pc = "done" =>
                \/ call'[c] = call[c]
                \/ c = ValidateCall /\ call'[c].pc = "idle"
          /\ (call'[c].pc = "send" /\ call'[c].sends > 1) =>
                call'[c].resp.status = 429 ]_vars

\* c.Client.Do failed on a live context: the call is over with that error
\* and the decoder has not run
C6_Witness ==
    \E c \in Calls :
        /\ call[c].pc = "done"
        /\ call[c].result.kind = "transport"
        /\ call[c].result.code = "conn"
        /\ call[c].body = "none"

\* C7: a call whose context is canceled during its backoff sleep leaves
\* the sleep only by returning; it does not complete the sleep and go on.
C7_SleepHonoursCancel ==
    [][ \A c \in Calls :
          (call[c].pc = "sleep" /\ call[c].ctx = "done") =>
              call'[c].pc \in {"sleep", "done"} ]_vars

\* C8: with a Logger, LogRequest has run once per c.Client.Do call and
\* LogResponse once per response received.
C8_HooksPerAttempt ==
    Logger =>
        \A c \in UserCalls :
            /\ call[c].pc \in {"send", "decode"} =>
                  call[c].logReq = call[c].sends
            /\ call[c].pc \in {"wait", "send", "sleep", "decode"} =>
                  call[c].logResp = call[c].recv

\* C9: the decoder returns an API Error only for a status outside
\* [200,300); for a status inside, a body that was read gives success or a
\* decode failure; for a status outside, a body that is not the error
\* envelope gives the parse failure.
C9_APIErrorOnlyOutside2xx ==
    \A c \in Calls :
        (call[c].pc = "done" /\ call[c].body # "none") =>
            LET res == call[c].result
            IN  /\ res.kind = "api" => ~Success2xx(res.status)
                /\ Success2xx(res.status) =>
                      \/ res.kind \in {"ok", "decode"}
                      \/ call[c].body = "readfail" /\ res.kind = "read"
                /\ (~Success2xx(res.status)
                      /\ call[c].body \in {"empty", "malformed"}) =>
                      res.kind = "parse"

\* a status-300 response with a malformed body came back as a parse failure
C9_Witness ==
    \E c \in Calls :
        /\ call[c].pc = "done"
        /\ call[c].result.status = 300
        /\ call[c].body = "malformed"
        /\ call[c].result.kind = "parse"

HeaderValue(h) == ParseInt(h).val

\* C11: the backoff slept for a 429 with integer Retry-After R is
\* d = R + floor(j/2) for some draw j in [0, R), with R >= 1; so
\* R <= d <= R + (R-1) div 2, and R = 2 gives 2 <= d < 3.
C11_BackoffIsHintPlusHalfJitter ==
    \A c \in Calls :
        call[c].pc = "sleep" =>
            LET R == HeaderValue(call[c].resp.retryAfter)
                d == call[c].sleepTime
            IN  /\ IsIntegerText(call[c].resp.retryAfter)
                /\ R >= 1
                /\ \E j \in 0..(R - 1) : d = R + (j \div 2)
                /\ R <= d
                /\ d <= R + ((R - 1) \div 2)
                /\ R = 2 => (2 <= d /\ d < 3)

\* a call sleeps the backoff of a 429 that carried Retry-After: 2
C11_Witness ==
    \E c \in Calls :
        /\ call[c].pc = "sleep"
        /\ call[c].resp.status = 429
        /\ call[c].resp.retryAfter = <<"2">>
        /\ call[c].sleepTime = 2

\* C12: UnmarshalResponse closes the response body on every exit path: a
\* call that returned from the decoder, whatever the body read and whatever
\* the outcome (read failure, API error, envelope parse failure, empty-body
\* or nil-target success, decode failure, decode success), has closed the
\* body it was handed.
C12_DecoderClosesBody ==
    \A c \in Calls :
        (call[c].pc = "done" /\ call[c].body # "none") =>
            /\ call[c].result.kind \in {"read", "api", "parse", "ok", "decode"}
            /\ call[c].closed = 1

\* the decoder returned io.ReadAll's error and the body is closed
C12_Witness ==
    \E c \in Calls :
        /\ call[c].pc = "done"
        /\ call[c].body = "readfail"
        /\ call[c].result.kind = "read"
        /\ call[c].closed = 1

\* C13: no call issued on the constructed client writes the client's
\* configuration: in particular none has assigned the Timeout of the
\* underlying HTTP client, so no two calls write the same field.
C13_RequestsOnlyReadConfig == timeoutWriters \cap UserCalls = {}

\* C14: the retry loop stops at the first response that is not a 429: a
\* call that waits, sleeps or sends again holds a 429, and the response
\* with the decoder is the last one the call received, every earlier one
\* having been a 429 that was retried.
C14_StopsAtFirstNon429 ==
    \A c \in Calls :
        /\ (call[c].pc \in {"wait", "sleep", "send"} /\ call[c].recv >= 1) =>
              call[c].resp.status = 429
        /\ (call[c].pc \in {"wait", "sleep", "send"} /\ call[c].recv = 0) =>
              call[c].resp = NoResp
        /\ call[c].pc = "decode" =>
              /\ call[c].recv = call[c].sends
              /\ call[c].resp.id = call[c].recv
              /\ call[c].returned = call[c].recv
              /\ call[c].sleeps = call[c].recv - 1

\* the second response is not a 429, though it carries Retry-After: it is
\* with the decoder after two sends and one sleep
C14_Witness ==
    \E c \in Calls :
        /\ call[c].pc = "decode"
        /\ call[c].resp.status = 300
        /\ call[c].resp.retryAfter = <<"1">>
        /\ call[c].sends = 2
        /\ call[c].sleeps = 1
        /\ call[c].returned = 2

\* C15: every send is preceded by a successful acquire of one token by the
\* same call: a call has never called c.Client.Do more often than
\* Ratelimiter.Wait has returned nil to it.
C15_EverySendHoldsAToken ==
    \A c \in Calls : call[c].sends <= call[c].acquired

\* C16: the attempts of one call are strictly sequential. At most one
\* c.Client.Do of a call is in flight, and only while the call is inside
\* it; a send is entered only from Ratelimiter.Wait; Wait is re-entered
\* only from a backoff sleep whose whole duration has elapsed; and a sleep
\* is entered only on receiving a 429, for the duration computed for it.
C16_AttemptsSequential ==
    [][ \A c \in Calls :
          /\ call'[c].sends - call'[c].recv =
                IF call'[c].pc = "send" THEN 1 ELSE 0
          /\ (call'[c].pc = "send" /\ call[c].pc # "send") =>
                /\ call[c].pc = "wait"
                /\ call'[c].sends = call[c].sends + 1
                /\ call[c].sleeps = call[c].sends
          /\ (call'[c].pc = "wait" /\ call[c].pc \notin {"wait", "idle"}) =>
                /\ call[c].pc = "sleep"
                /\ ticks >= call[c].wake
                /\ call'[c].sleeps = call[c].sleeps + 1
          /\ (call'[c].pc = "sleep" /\ call[c].pc # "sleep") =>
                /\ Receives(c)
                /\ call'[c].resp.status = 429
                /\ call'[c].sleepTime >= 1
                /\ call'[c].wake = ticks + call'[c].sleepTime ]_vars

\* a retry send is in flight: one 429 received, its backoff slept, Wait run
C16_Witness ==
    \E c \in Calls :
        /\ call[c].pc = "send"
        /\ call[c].sends = 2
        /\ call[c].recv = 1
        /\ call[c].sleeps = 1
        /\ call[c].resp.status = 429
        /\ ticks >= 1

\* C17: when a call returns, the body of every response it received is
\* closed: the bodies closed equal the responses received, on the return
\* from the decoder and on the return of a transport error alike.
C17_EveryBodyClosedOnReturn ==
    [][ \A c \in Calls :
          (call[c].pc \in {"send", "decode"} /\ call'[c].pc = "done") =>
              call'[c].closed = call[c].recv ]_vars

\* C18: no call panics: for every 429 whose Retry-After reads as an
\* integer, zero included, Do computes a delay and goes on.
C18_NoPanicOnIntegerRetryAfter ==
    \A c \in Calls :
        /\ call[c].pc # "panic"
        /\ (call[c].resp.status = 429
              /\ IsIntegerText(call[c].resp.retryAfter)
              /\ call[c].recv < MaxAttempts) =>
              call[c].pc \in {"sleep", "wait", "send"}

\* the frame of a call without the counts of the hooks that ran
Control(cr) == [cr EXCEPT !.logReq = 0, !.logResp = 0]

\* C19: logging does not alter control flow. Every step a call takes under
\* the client's Logger setting, for a context, a Wait outcome, a response
\* and a jitter draw, is the step the code takes under the opposite
\* setting for the same inputs, the counts of hook runs aside: the same
\* acquisitions, sends and sleeps, the same response to the decoder and
\* the same result to the caller.
C19_LoggingKeepsControlFlow ==
    [][ \A c \in Calls :
          LET old == call[c]
              new == call'[c]
          IN  /\ (old.pc = "idle" /\ new.pc = "wait") =>
                    Control(new) = Control(DoEnter(old, new.ctx, ~Logger))
              /\ (old.pc = "wait" /\ new.pc = "send") =>
                    Control(new) = AfterWait(Control(old), new.waitErr)
              /\ Receives(c) =>
                    Control(new) \in
                        { Control(x) :
                            x \in AfterSendResponse(Control(old),
                                      [new.resp EXCEPT !.id = 0], ~Logger) }
              /\ (old.pc = "send" /\ new.pc = "done") =>
                    new \in AfterSendError(Control(old))
              /\ (old.pc = "sleep" /\ new.pc = "wait") =>
                    /\ Control(new).sleeps = Control(old).sleeps + 1
                    /\ Control(new).sends = Control(old).sends
                    /\ Control(new).resp = Control(old).resp
              /\ Decodes(c) =>
                    \E t \in Targets :
                        new.result =
                            UnmarshalResponse(old.resp.status, new.body, t).result
        ]_vars

\* with a Logger set, a call retried once and its second response is with
\* the decoder: LogRequest and LogResponse each ran once
C19_Witness ==
    /\ Logger
    /\ \E c \in UserCalls :
          /\ call[c].pc = "decode"
          /\ call[c].sends = 2
          /\ call[c].sleeps = 1
          /\ call[c].logReq = 1
          /\ call[c].logResp = 1

\* C20: every call eventually returns: a call that has entered Do returns
\* to its caller, whatever the server answers.
C20_EveryCallReturns ==
    \A c \in Calls : (call[c].pc = "wait") ~> (call[c].pc = "done")

\* every call that has entered Do returns or the process has panicked
EveryCallReturnsOrPanics ==
    \A c \in Calls : (call[c].pc = "wait") ~> (call[c].pc = "done" \/ Crashed)

====
